---- MODULE Spec2Model ----
(***************************************************************************)
(* Torchelie training recipes: TrainAndTest (recipes/trainandtest.py) and  *)
(* the Classification presets (recipes/classification.py).                 *)
(*                                                                         *)
(* A behaviour is one user program: a recipe object is constructed from    *)
(* the arguments drawn in Init, callbacks may be added, and then the       *)
(* recipe is run once (fit) or called. The run is followed callback by     *)
(* callback, so that the state between two callbacks of one iteration is   *)
(* a state of the model.                                                   *)
(*                                                                         *)
(* torchelie.recipes.recipebase (DataLoop, DataModelLoop) and              *)
(* torchelie.metrics.callbacks (Counter, CallDataLoop, VisdomLogger,       *)
(* StdoutLogger, Checkpoint, AccAvg) are imported by the sources but are   *)
(* not among them; their behaviour is taken from sections 4.1-4.3 of the   *)
(* specification.                                                          *)
(***************************************************************************)
EXTENDS Integers, Sequences, FiniteSets, TLC

\* ------------------------------------------------------------- bounds
MaxIters == 10
MaxTrainLen == 3
MaxTestLen == 2
MaxTestEvery == 3
\* the runs with a metric accumulator on the test loop
MaxAccIters == 3
MaxAccTestLen == 4
\* a per-batch accuracy, in halves: 0, 1/2, 1
MaxAccValue == 2

\* ------------------------------------------------- program constants
\* log_every=10 in TrainAndTest.__init__'s signature
LogEveryDefault == 10
\* test_every=100 in TrainAndTest.__init__'s signature
TestEveryDefault == 100
\* "testing frequency, in number of iterations (default: 1000)"
TestEveryDocumented == 1000

None == "None"

Kinds == {"TrainAndTest", "Classification", "CrossEntropyClassification"}
ClfKinds == {"Classification", "CrossEntropyClassification"}
VisdomEnvs == {None, "main"}
\* visdom_env='main' in TrainAndTest.__init__'s signature
VisdomEnvDefault == "main"
\* "or None for not using Visdom (default: None)"
VisdomEnvDocumented == None
LogEveryValues == {2, LogEveryDefault}
TestEveryValues == (-1) .. MaxTestEvery
\* u3 is a user callback that registers callbacks when it is invoked
UserCbs == {"u1", "u2", "u3"}

User(u) == [cb |-> "User", id |-> u]

VARIABLES
    \* the arguments of the constructor call
    kind, test_every, visdom_env, log_every, train_loader, test_loader,
    train_callbacks, test_callbacks,
    \* whether the optional arguments were left to their defaults
    defaults,
    \* the recipe object: its two loops' callback lists
    train_prologues, train_epilogues, test_epilogues,
    \* the keyword arguments Classification.__init__ hands to its base class
    superCall,
    \* the model: module mode, autograd mode, parameters; the optimizer
    training, gradEnabled, params, optState, optMade,
    \* the training loop's State and the CallDataLoop callback's own state
    iters, epoch, trainPos, last, target, fitArg,
    \* the outside world: files, network calls, lines on stdout, user callbacks
    files, netCalls, stdoutLines, userCalls,
    \* control: position of the run, index in the callback list being run,
    \* index of the test batch, the exception that left the program
    pc, ti, si, tb, err,
    \* observers
    stepIters, testStarts, testPasses, ckptWrites, testActive, events,
    \* the test accuracy accumulator: running sum and count, the value it
    \* last posted (as sum and count), the number of values posted
    accSum, accCnt, accOut, accEmits,
    \* the per-batch scalar of the latest test StepResult; the sum and count
    \* of the scalars and the batches visited in the current test pass
    batchVal, passSum, passCnt, passBatches,
    \* the optimizer object in use and the one each training step was given
    optId, stepOpts,
    \* calls of add_callbacks / add_test_callbacks made while a run is on
    lateAdds

inputs == <<kind, test_every, visdom_env, log_every, train_loader, test_loader,
            train_callbacks, test_callbacks, defaults>>
loops == <<train_prologues, train_epilogues, test_epilogues, superCall>>
modelv == <<training, gradEnabled, params, optState, optMade>>
statev == <<iters, epoch, trainPos, last, target, fitArg>>
world == <<files, netCalls, stdoutLines, userCalls>>
ctrl == <<pc, ti, si, tb, err>>
obs == <<stepIters, testStarts, testPasses, ckptWrites, testActive, events>>
accv == <<accSum, accCnt, accOut, accEmits>>
passv == <<batchVal, passSum, passCnt, passBatches>>
optv == <<optId, stepOpts>>
vars == <<inputs, loops, modelv, statev, world, ctrl, obs, accv, passv, optv,
          lateAdds>>

\* ------------------------------------------------------- construction

\* def __init__(self, model, train_fun, test_fun, train_loader, test_loader,
\*              test_every=100, visdom_env='main', log_every=10, device='cpu')
TrainAndTestParams ==
    {"model", "train_fun", "test_fun", "train_loader", "test_loader",
     "test_every", "visdom_env", "log_every", "device"}

TrainAndTestRequired ==
    {"model", "train_fun", "test_fun", "train_loader", "test_loader"}

\* Python's binding of a call by keywords to a signature
BindCall(sig, required, kwargs) ==
    IF kwargs \ sig # {} THEN "TypeError"
    ELSE IF required \ kwargs # {} THEN "TypeError"
    ELSE "ok"

AccAvg(post) == [cb |-> "AccAvg", post_each_batch |-> post]

\* cb.AccAvg(post_each_batch=False), the accumulator of the test loop
TestAccAvgEachBatch == AccAvg(TRUE)
TestAccAvg == AccAvg(FALSE)

\* super(Classification, self).__init__(model=..., visdom_env=..., ...)
ClassificationSuperArgs(env, every, tcbs, tecbs) ==
    [model |-> "learner", visdom_env |-> env, test_every |-> every,
     train_callbacks |-> <<AccAvg(TRUE)>>,
     test_callbacks |-> <<TestAccAvg>>,
     device |-> "cpu"]

\* train_loop.add_prologues([tcb.Counter()])
TrainPrologues == <<[cb |-> "Counter"]>>

\* the period handed to CallDataLoop
CallDataLoopEveryLog(every) == log_every
CallDataLoopEvery(every) == every

\* the environment handed to the training VisdomLogger
TrainVisdomEnvMain(env) == "main"
TrainVisdomEnv(env) == env

\* train_loop.add_epilogues([CallDataLoop, VisdomLogger, StdoutLogger])
TrainEpiloguesNoTest(every, env, logEvery) ==
    << [cb |-> "VisdomLogger", visdom_env |-> TrainVisdomEnv(env),
        log_every |-> logEvery, prefix |-> ""],
       [cb |-> "StdoutLogger", log_every |-> logEvery, prefix |-> ""] >>
TrainEpiloguesTestLast(every, env, logEvery) ==
    << [cb |-> "VisdomLogger", visdom_env |-> TrainVisdomEnv(env),
        log_every |-> logEvery, prefix |-> ""],
       [cb |-> "StdoutLogger", log_every |-> logEvery, prefix |-> ""],
       [cb |-> "CallDataLoop", loop |-> "test_loop",
        every |-> CallDataLoopEvery(every)] >>
TrainEpilogues(every, env, logEvery) ==
    << [cb |-> "CallDataLoop", loop |-> "test_loop",
        every |-> CallDataLoopEvery(every)],
       [cb |-> "VisdomLogger", visdom_env |-> TrainVisdomEnv(env),
        log_every |-> logEvery, prefix |-> ""],
       [cb |-> "StdoutLogger", log_every |-> logEvery, prefix |-> ""] >>

\* (visdom_env or 'model') + '/ckpt'
CkptPath(env) == (IF env = None THEN "model" ELSE env) \o "/ckpt"

\* the loop whose state Checkpoint saves
CkptLoopTest == "test_loop"
CkptLoop == "train_loop"

\* test_loop.add_epilogues([VisdomLogger, StdoutLogger, Checkpoint])
TestEpiloguesNoCheckpoint(env) ==
    << [cb |-> "VisdomLogger", visdom_env |-> env, log_every |-> -1,
        prefix |-> "test_"],
       [cb |-> "StdoutLogger", log_every |-> -1, prefix |-> "Test"] >>
TestEpilogues(env) ==
    << [cb |-> "VisdomLogger", visdom_env |-> env, log_every |-> -1,
        prefix |-> "test_"],
       [cb |-> "StdoutLogger", log_every |-> -1, prefix |-> "Test"],
       [cb |-> "Checkpoint", filename |-> CkptPath(env), loop |-> CkptLoop] >>

\* test_loop = DataLoop(eval_call, test_loader, device=device)
TestLoopLoaderTrain == train_loader
TestLoopLoader == test_loader

\* a path at which nothing has been written
NoFile == [params |-> -1, opt |-> -1, iters |-> -1]

\* an accumulator that has posted nothing yet
NoValue == [sum |-> -1, cnt |-> -1]

\* the paths a recipe can be configured to write
Paths == {CkptPath(e) : e \in VisdomEnvs}

\* The state before construction, the constructor's arguments drawn from
\* the given sets
InitWith(kinds, everys, envs, logs, trainLens, testLens, modes) ==
    /\ kind \in kinds
    /\ defaults \in IF kind = "TrainAndTest" THEN BOOLEAN ELSE {FALSE}
    /\ test_every \in IF defaults THEN {TestEveryDefault} ELSE everys
    /\ visdom_env \in IF defaults THEN {VisdomEnvDefault} ELSE envs
    /\ log_every \in IF defaults THEN {LogEveryDefault} ELSE logs
    /\ train_loader \in trainLens
    /\ test_loader \in testLens
    /\ train_callbacks \in
         IF kind \in ClfKinds THEN {<<>>, <<User("u1")>>} ELSE {<<>>}
    /\ test_callbacks \in
         IF kind \in ClfKinds THEN {<<>>, <<User("u2")>>} ELSE {<<>>}
    /\ train_prologues = <<>>
    /\ train_epilogues = <<>>
    /\ test_epilogues = <<>>
    /\ superCall = None
    /\ training \in modes
    /\ gradEnabled = TRUE
    /\ params = 0
    /\ optState = 0
    /\ optMade = 0
    /\ iters = 0
    /\ epoch = 0
    /\ trainPos = 0
    /\ last = 0
    /\ target = 0
    /\ fitArg = 0
    /\ files = [p \in Paths |-> NoFile]
    /\ netCalls = 0
    /\ stdoutLines = 0
    /\ userCalls = [u \in UserCbs |-> 0]
    /\ pc = "new"
    /\ ti = 0
    /\ si = 0
    /\ tb = 0
    /\ err = None
    /\ stepIters = <<>>
    /\ testStarts = <<>>
    /\ testPasses = 0
    /\ ckptWrites = 0
    /\ testActive = FALSE
    /\ events = <<>>
    /\ accSum = 0
    /\ accCnt = 0
    /\ accOut = NoValue
    /\ accEmits = 0
    /\ batchVal = 0
    /\ passSum = 0
    /\ passCnt = 0
    /\ passBatches = <<>>
    /\ optId = 0
    /\ stepOpts = <<>>
    /\ lateAdds = 0

Init ==
    InitWith(Kinds, TestEveryValues, VisdomEnvs, LogEveryValues,
             0 .. MaxTrainLen, 1 .. MaxTestLen, BOOLEAN)

\* The body of TrainAndTest.__init__ once its arguments are bound
Wire ==
    /\ train_prologues' = TrainPrologues
    /\ train_epilogues' = TrainEpilogues(test_every, visdom_env, log_every)
    /\ test_epilogues' = TestEpilogues(visdom_env)

\* TrainAndTest(model, train_fun, test_fun, train_loader, test_loader, ...),
\* Classification(model, ...) and CrossEntropyClassification(model, ...)
Construct ==
    /\ pc = "new"
    /\ IF kind = "TrainAndTest"
       THEN /\ Wire
            /\ superCall' = superCall
            /\ pc' = "ready"
            /\ err' = err
       ELSE LET args == ClassificationSuperArgs(visdom_env, test_every,
                                                train_callbacks, test_callbacks)
                bound == BindCall(TrainAndTestParams, TrainAndTestRequired,
                                  DOMAIN args)
            IN /\ superCall' = args
               /\ IF bound = "ok"
                  THEN /\ Wire
                       /\ pc' = "ready"
                       /\ err' = err
                  ELSE /\ UNCHANGED <<train_prologues, train_epilogues,
                                      test_epilogues>>
                       /\ pc' = "raised"
                       /\ err' = bound
    /\ UNCHANGED <<inputs, modelv, statev, world, ti, si, tb, obs, accv, passv,
                   optv, lateAdds>>

\* A loop's add_callbacks: registration happens before the run; the lists
\* are immutable once a run has started
LoopAddAlways(cbs, c, running) == Append(cbs, c)
LoopAdd(cbs, c, running) == IF running THEN cbs ELSE Append(cbs, c)

\* self.train_loop.add_callbacks(cbs)
AddCallbacks(c) ==
    /\ pc = "ready"
    /\ \A i \in 1 .. Len(train_epilogues) : train_epilogues[i] # c
    /\ train_epilogues' = LoopAdd(train_epilogues, c, FALSE)
    /\ UNCHANGED <<inputs, train_prologues, test_epilogues, superCall, modelv,
                   statev, world, ctrl, obs, accv, passv, optv, lateAdds>>

\* self.test_loop.add_callbacks(cbs)
AddTestCallbacks(c) ==
    /\ pc = "ready"
    /\ \A i \in 1 .. Len(test_epilogues) : test_epilogues[i] # c
    /\ test_epilogues' = LoopAdd(test_epilogues, c, FALSE)
    /\ UNCHANGED <<inputs, train_prologues, train_epilogues, superCall, modelv,
                   statev, world, ctrl, obs, accv, passv, optv, lateAdds>>

\* User callback u3 calls the recipe's add_callbacks and add_test_callbacks
\* from inside its invocation, that is, during the run
UserCallbackCalls(c) ==
    IF c = User("u3")
    THEN /\ train_epilogues' = LoopAdd(train_epilogues, User("u1"), TRUE)
         /\ test_epilogues' = LoopAdd(test_epilogues, User("u2"), TRUE)
         /\ lateAdds' = lateAdds + 1
    ELSE UNCHANGED <<train_epilogues, test_epilogues, lateAdds>>

\* ------------------------------------------------------------ the run

\* what fit hands to train_loop.run
RunArgEpochs(n) == n * train_loader
RunArg(n) == n

\* train_loop = DataModelLoop(model, train_fun, train_loader, device=device)
TrainLoopClassDataLoop == "DataLoop"
TrainLoopClass == "DataModelLoop"

\* DataModelLoop.run(n): the State is created, the optimizer made, and the
\* first batch fetched; a plain DataLoop has no model and makes no optimizer
StartRun(n) ==
    /\ target' = n
    /\ optMade' = IF TrainLoopClass = "DataModelLoop"
                  THEN optMade + 1 ELSE optMade
    /\ optId' = IF TrainLoopClass = "DataModelLoop" THEN optMade + 1 ELSE 0
    /\ iters' = 0
    /\ epoch' = 0
    /\ last' = 0
    /\ IF n <= 0
       THEN /\ pc' = "done"
            /\ UNCHANGED <<trainPos, ti, err>>
       ELSE IF train_loader = 0
       THEN /\ pc' = "raised"
            /\ err' = "EmptyLoader"
            /\ UNCHANGED <<trainPos, ti>>
       ELSE /\ trainPos' = 1
            /\ pc' = IF train_prologues = <<>> THEN "train_step"
                     ELSE "train_prologue"
            /\ ti' = 1
            /\ err' = err
    /\ UNCHANGED <<inputs, loops, training, gradEnabled, params, optState,
                   world, si, tb, obs, accv, passv, stepOpts, lateAdds>>

\* TrainAndTest.fit(iters)
Fit(n) ==
    /\ pc = "ready"
    /\ fitArg' = n
    /\ StartRun(RunArg(n))

\* the iteration index and the end of a pass, as a callback of `loop` sees them
CurIters(loop) == IF loop = "test_loop" THEN tb ELSE iters
PassEnd(loop) ==
    IF loop = "test_loop" THEN tb = TestLoopLoader ELSE trainPos = train_loader

\* loggers: every log_every iterations, or at the end of the pass if negative
LogDue(c, loop) ==
    IF c.log_every > 0 THEN CurIters(loop) % c.log_every = 0 ELSE PassEnd(loop)

\* CallDataLoop: the period has elapsed since the last triggered iteration
Due(every) == every > 0 /\ iters - last >= every

\* The metric accumulator folds the batch's scalar into its running average;
\* it posts the average after every batch, or, with post_each_batch false,
\* once at the end of the pass, where it is reset
AccAvgEffect(c, loop) ==
    LET sum == accSum + batchVal
        cnt == accCnt + 1
        post == c.post_each_batch \/ PassEnd(loop)
    IN /\ accOut' = IF post THEN [sum |-> sum, cnt |-> cnt] ELSE accOut
       /\ accEmits' = IF post THEN accEmits + 1 ELSE accEmits
       /\ accSum' = IF PassEnd(loop) THEN 0 ELSE sum
       /\ accCnt' = IF PassEnd(loop) THEN 0 ELSE cnt

\* The name a callback goes by in the log of an iteration
Tag(c) ==
    IF c.cb \in {"VisdomLogger", "StdoutLogger"} THEN c.prefix \o c.cb
    ELSE IF c.cb = "User" THEN c.id
    ELSE c.cb

\* What one invocation of callback c, registered on `loop`, does
CbEffect(c, loop) ==
    /\ iters' = IF c.cb = "Counter" THEN iters + 1 ELSE iters
    /\ netCalls' = IF c.cb = "VisdomLogger" /\ c.visdom_env # None
                      /\ LogDue(c, loop)
                   THEN netCalls + 1 ELSE netCalls
    /\ stdoutLines' = IF c.cb = "StdoutLogger" /\ LogDue(c, loop)
                      THEN stdoutLines + 1 ELSE stdoutLines
    /\ files' = IF c.cb = "Checkpoint" /\ PassEnd(loop)
                THEN [files EXCEPT ![c.filename] =
                        [params |-> params, opt |-> optState,
                         iters |-> CurIters(c.loop)]]
                ELSE files
    /\ ckptWrites' = IF c.cb = "Checkpoint" /\ PassEnd(loop)
                     THEN ckptWrites + 1 ELSE ckptWrites
    /\ userCalls' = IF c.cb = "User"
                    THEN [userCalls EXCEPT ![c.id] = @ + 1] ELSE userCalls
    /\ IF c.cb = "AccAvg"
       THEN AccAvgEffect(c, loop)
       ELSE UNCHANGED accv
    /\ UserCallbackCalls(c)

\* The training iteration is over: stop at the target or fetch the next
\* batch, starting the sequence again when it is exhausted
EndIteration(it) ==
    IF it >= target
    THEN /\ pc' = "done"
         /\ UNCHANGED <<ti, trainPos, epoch>>
    ELSE /\ pc' = IF train_prologues = <<>> THEN "train_step"
                  ELSE "train_prologue"
         /\ ti' = 1
         /\ trainPos' = IF trainPos = train_loader THEN 1 ELSE trainPos + 1
         /\ epoch' = IF trainPos = train_loader THEN epoch + 1 ELSE epoch

\* Control after the training epilogue at index ti has returned
TrainAdvance(it) ==
    IF ti < Len(train_epilogues)
    THEN /\ pc' = "train_epilogue"
         /\ ti' = ti + 1
         /\ UNCHANGED <<trainPos, epoch>>
    ELSE EndIteration(it)

TrainPrologue ==
    /\ pc = "train_prologue"
    /\ LET c == train_prologues[ti]
       IN /\ CbEffect(c, "train_loop")
          /\ events' = Append(IF ti = 1 THEN <<>> ELSE events, Tag(c))
    /\ IF ti < Len(train_prologues)
       THEN /\ ti' = ti + 1
            /\ pc' = pc
       ELSE /\ ti' = 1
            /\ pc' = "train_step"
    /\ UNCHANGED <<inputs, train_prologues, superCall, modelv, epoch, trainPos,
                   last, target, fitArg, si, tb, err, stepIters, testStarts,
                   testPasses, testActive, passv, optv>>

\* train_fun(batch): one optimizer step on the model, or an exception
TrainStep ==
    /\ pc = "train_step"
    /\ stepIters' = Append(stepIters, iters)
    /\ stepOpts' = Append(stepOpts, optId)
    /\ events' = Append(events, "train_step")
    /\ \E ok \in BOOLEAN :
         IF ok
         THEN /\ params' = params + 1
              /\ optState' = optState + 1
              /\ err' = err
              /\ IF train_epilogues = <<>>
                 THEN EndIteration(iters)
                 ELSE /\ pc' = "train_epilogue"
                      /\ ti' = 1
                      /\ UNCHANGED <<trainPos, epoch>>
         ELSE /\ pc' = "raised"
              /\ err' = "TrainStepError"
              /\ UNCHANGED <<params, optState, ti, trainPos, epoch>>
    /\ UNCHANGED <<inputs, loops, training, gradEnabled, optMade, iters, last,
                   target, fitArg, world, si, tb, testStarts, testPasses,
                   ckptWrites, testActive, accv, passv, optId, lateAdds>>

TrainEpilogue ==
    /\ pc = "train_epilogue"
    /\ LET c == train_epilogues[ti]
       IN /\ events' = Append(events, Tag(c))
          /\ IF c.cb = "CallDataLoop" /\ Due(c.every)
             THEN \* test_loop.run(): the nested pass starts
                  /\ last' = iters
                  /\ testStarts' = Append(testStarts, iters)
                  /\ testActive' = TRUE
                  /\ tb' = 1
                  /\ passSum' = 0
                  /\ passCnt' = 0
                  /\ passBatches' = <<>>
                  /\ pc' = "eval_call"
                  /\ UNCHANGED <<iters, world, ckptWrites, ti, trainPos, epoch,
                                 accv, batchVal, train_epilogues,
                                 test_epilogues, lateAdds>>
             ELSE /\ CbEffect(c, "train_loop")
                  /\ TrainAdvance(iters')
                  /\ UNCHANGED <<last, testStarts, testActive, tb, passv>>
    /\ UNCHANGED <<inputs, train_prologues, superCall, modelv, target, fitArg,
                   si, err, stepIters, testPasses, optv>>

\* eval_call(batch): model.eval(); with torch.no_grad():
EvalCallBeginNoEval ==
    /\ pc = "eval_call"
    /\ gradEnabled' = FALSE
    /\ pc' = "test_fun"
    /\ UNCHANGED <<inputs, loops, training, params, optState, optMade, statev,
                   world, ti, si, tb, err, obs, accv, passv, optv, lateAdds>>
EvalCallBegin ==
    /\ pc = "eval_call"
    /\ training' = FALSE
    /\ gradEnabled' = FALSE
    /\ pc' = "test_fun"
    /\ UNCHANGED <<inputs, loops, params, optState, optMade, statev, world,
                   ti, si, tb, err, obs, accv, passv, optv, lateAdds>>

\* The per-batch scalars a test StepResult can carry; it is drawn only when
\* an accumulator is registered to read it
StepValues ==
    IF \E i \in 1 .. Len(test_epilogues) : test_epilogues[i].cb = "AccAvg"
    THEN 0 .. MaxAccValue ELSE {0}

\* the function eval_call applies to a batch: out = test_fun(batch); it reads
\* the model, where train_fun would update it
TestFunTrain == "train_fun"
TestFun == "test_fun"

\* test_fun(batch) raises: eval_call catches nothing, the exception leaves it
\* and the loop that called it
EvalCallRaiseCaught ==
    /\ pc' = "test_epilogue"
    /\ err' = "TestStepError"
    /\ si' = 1
EvalCallRaise ==
    /\ pc' = "raised"
    /\ err' = "TestStepError"
    /\ si' = si

\* out = test_fun(batch), leaving the with block; model.train(); return out
EvalCallEnd ==
    /\ pc = "test_fun"
    /\ gradEnabled' = TRUE
    /\ events' = Append(events, "test_step")
    /\ passBatches' = Append(passBatches, tb)
    /\ \E ok \in BOOLEAN :
         IF ok
         THEN /\ training' = TRUE
              /\ pc' = "test_epilogue"
              /\ si' = 1
              /\ err' = err
              /\ \E v \in StepValues :
                   /\ batchVal' = v
                   /\ passSum' = passSum + v
                   /\ passCnt' = passCnt + 1
         ELSE /\ training' = training
              /\ EvalCallRaise
              /\ UNCHANGED <<batchVal, passSum, passCnt>>
    /\ params' = IF TestFun = "train_fun" THEN params + 1 ELSE params
    /\ optState' = IF TestFun = "train_fun" THEN optState + 1 ELSE optState
    /\ UNCHANGED <<inputs, loops, optMade, statev, world,
                   ti, tb, stepIters, testStarts, testPasses, ckptWrites,
                   testActive, accv, optv, lateAdds>>

TestEpilogue ==
    /\ pc = "test_epilogue"
    /\ LET c == test_epilogues[si]
       IN /\ CbEffect(c, "test_loop")
          /\ events' = Append(events, Tag(c))
    /\ IF si < Len(test_epilogues)
       THEN /\ si' = si + 1
            /\ UNCHANGED <<pc, tb, ti, trainPos, epoch, testPasses, testActive>>
       ELSE IF tb < TestLoopLoader
       THEN /\ tb' = tb + 1
            /\ pc' = "eval_call"
            /\ UNCHANGED <<si, ti, trainPos, epoch, testPasses, testActive>>
       ELSE \* the pass is over: CallDataLoop returns to the training loop
            /\ testPasses' = testPasses + 1
            /\ testActive' = FALSE
            /\ TrainAdvance(iters)
            /\ UNCHANGED <<si, tb>>
    /\ UNCHANGED <<inputs, train_prologues, superCall, modelv, last, target,
                   fitArg, err, stepIters, testStarts, passv, optv>>

\* -------------------------------------------------- calling the recipe

Methods(cls) ==
    CASE cls = "TrainAndTest" ->
           {"__init__", "add_callbacks", "add_test_callbacks", "fit"}
      [] cls = "Classification" -> {"__init__", "__call__"}
      [] cls = "CrossEntropyClassification" -> {"__init__", "__call__"}

Mro(cls) ==
    CASE cls = "TrainAndTest" -> <<"TrainAndTest">>
      [] cls = "Classification" -> <<"Classification", "TrainAndTest">>
      [] cls = "CrossEntropyClassification" -> <<"CrossEntropyClassification">>

\* attribute lookup along a method resolution order
Resolve(mro, name) ==
    LET hit == {i \in 1 .. Len(mro) : name \in Methods(mro[i])}
    IN IF hit = {} THEN None
       ELSE mro[CHOOSE i \in hit : \A j \in hit : i <= j]

\* return super(Classification, self).__call__(train_loader, test_loader, epochs)
ClassificationCall ==
    IF Resolve(Tail(Mro("Classification")), "__call__") = None
    THEN "AttributeError" ELSE "ok"

\* recipe(train_loader, test_loader, epochs)
CallOutcome(cls) ==
    IF Resolve(Mro(cls), "__call__") = None THEN "TypeError"
    ELSE ClassificationCall

Call(n) ==
    /\ pc = "ready"
    /\ fitArg' = n
    /\ IF CallOutcome(kind) = "ok"
       THEN StartRun(n)
       ELSE /\ pc' = "raised"
            /\ err' = CallOutcome(kind)
            /\ UNCHANGED <<inputs, loops, modelv, iters, epoch, trainPos, last,
                           target, world, ti, si, tb, obs, accv, passv, optv,
                           lateAdds>>

Next ==
    \/ Construct
    \/ AddCallbacks(User("u1"))
    \/ AddTestCallbacks(User("u2"))
    \/ \E n \in 0 .. MaxIters : Fit(n)
    \/ \E n \in 0 .. MaxIters : Call(n)
    \/ TrainPrologue
    \/ TrainStep
    \/ TrainEpilogue
    \/ EvalCallBegin
    \/ EvalCallEnd
    \/ TestEpilogue

Spec == Init /\ [][Next]_vars

\* A TrainAndTest recipe on which a user callback that registers callbacks
\* during the run can be registered, on either loop
InitLate ==
    InitWith({"TrainAndTest"}, 1 .. 2, {None}, {2}, 1 .. 2, 1 .. 2, {TRUE})

NextLate ==
    \/ Construct
    \/ \E u \in {"u1", "u3"} : AddCallbacks(User(u))
    \/ \E u \in {"u2", "u3"} : AddTestCallbacks(User(u))
    \/ \E n \in 0 .. MaxAccIters : Fit(n)
    \/ TrainPrologue
    \/ TrainStep
    \/ TrainEpilogue
    \/ EvalCallBegin
    \/ EvalCallEnd
    \/ TestEpilogue

SpecLate == InitLate /\ [][NextLate]_vars

\* A TrainAndTest recipe whose test loop carries the accumulator that posts at
\* the end of the pass, over test sequences of up to MaxAccTestLen batches
InitAcc ==
    InitWith({"TrainAndTest"}, 1 .. 2, {None}, {2}, 1 .. 2,
             1 .. MaxAccTestLen, {TRUE})

NextAcc ==
    \/ Construct
    \/ AddTestCallbacks(TestAccAvg)
    \/ \E n \in 0 .. MaxAccIters : Fit(n)
    \/ TrainPrologue
    \/ TrainStep
    \/ TrainEpilogue
    \/ EvalCallBegin
    \/ EvalCallEnd
    \/ TestEpilogue

SpecAcc == InitAcc /\ [][NextAcc]_vars

\* ------------------------------------------------------------- claims

InSeq(x, s) == \E i \in 1 .. Len(s) : s[i] = x

C2_TestPassCount ==
    pc = "done" =>
        testPasses = IF test_every > 0 THEN fitArg \div test_every ELSE 0

C2_Witness ==
    /\ pc = "done"
    /\ test_every = 2
    /\ fitArg = 5
    /\ testPasses = 2

\* C3 (as claimed): when the test step raises, the model is back in training
\* mode as the error leaves the test pass.
C3_TrainModeRestoredOnError ==
    err = "TestStepError" => training

\* C4 (as claimed): from the first test batch until the pass ends, epilogues
\* included, the model is in inference mode.
C4_InferenceModeWholePass ==
    (testActive /\ ~(pc = "eval_call" /\ tb = 1)) => ~training

\* C4 (amended): the model is in inference mode, with gradients disabled,
\* while each test step runs; eval_call puts it back in training mode after
\* every batch, so the test epilogues (loggers, Checkpoint) run in training
\* mode, and so does everything after a pass that completed.
C4_InferenceModePerBatch ==
    /\ pc = "test_fun" => (~training /\ ~gradEnabled)
    /\ pc = "test_epilogue" => (training /\ gradEnabled)
    /\ (testPasses >= 1 /\ ~testActive) => training

C4_Witness ==
    /\ pc = "test_epilogue"
    /\ test_epilogues[si].cb = "Checkpoint"
    /\ tb = 2
    /\ training

\* C5: with test_every = k > 0 the i-th test pass is triggered after training
\* iteration i * k and after no other iteration, and a pass that was
\* triggered has completed before the next training step is invoked.
C5_TestPassesAtMultiples ==
    /\ \A i \in 1 .. Len(testStarts) :
         /\ testStarts[i] = i * test_every
         /\ testStarts[i] <= Len(stepIters)
    /\ (pc = "done" /\ test_every > 0) =>
         Len(testStarts) = fitArg \div test_every
    /\ pc = "train_step" => (~testActive /\ testPasses = Len(testStarts))

C5_Witness ==
    /\ pc = "done"
    /\ test_every = 2
    /\ fitArg = 5
    /\ testStarts = <<2, 4>>

\* C6: after any number N >= 1 of completed test passes, the one file at the
\* configured path holds the parameters, optimizer state and iteration
\* counter as they were at the most recent pass (the iteration it was
\* triggered at); every write lands on that one path, and what a write
\* leaves is one consistent snapshot.
C6_CheckpointIsLatest ==
    /\ \A p \in Paths : files[p] # NoFile => p = CkptPath(visdom_env)
    /\ (testPasses >= 1 /\ ~testActive) =>
         files[CkptPath(visdom_env)] =
            [params |-> last, opt |-> last, iters |-> last]
    /\ ckptWrites >= 1 =>
         LET f == files[CkptPath(visdom_env)]
         IN f # NoFile /\ f.params = f.iters /\ f.opt = f.iters

C6_Witness ==
    /\ testPasses >= 2
    /\ ~testActive
    /\ ckptWrites >= 2
    /\ last = 2 * test_every
    /\ files[CkptPath(visdom_env)].iters = last

\* C7: with visdom_env = None no network call is ever made, and a fit that
\* returns has counted every iteration, run the test passes, logged to
\* stdout and written the checkpoint to model/ckpt.
C7_NoVisdomIsNoOp ==
    (kind = "TrainAndTest" /\ visdom_env = None) =>
        /\ netCalls = 0
        /\ \A p \in Paths : files[p] # NoFile => p = "model/ckpt"
        /\ pc = "done" =>
             /\ iters = fitArg
             /\ testPasses = (IF test_every > 0 THEN fitArg \div test_every ELSE 0)
             /\ stdoutLines = (fitArg \div log_every) + testPasses
             /\ testPasses >= 1 => files["model/ckpt"] # NoFile

C7_Witness ==
    /\ visdom_env = None
    /\ pc = "done"
    /\ fitArg = 10
    /\ log_every = LogEveryDefault
    /\ testPasses >= 1
    /\ stdoutLines >= 2
    /\ files["model/ckpt"] # NoFile

\* C8 (as claimed): constructing a classification recipe succeeds, and the
\* accuracy accumulators are then registered on the training and test loops.
C8_ClassificationConstructs ==
    (kind \in ClfKinds /\ pc # "new") =>
        /\ err = None
        /\ InSeq(AccAvg(TRUE), train_epilogues)
        /\ InSeq(AccAvg(FALSE), test_epilogues)

\* C9 (as claimed): a classification recipe's call resolves to an entry point
\* of the base recipe and never ends in a TypeError or AttributeError.
C9_CallReturnsPair ==
    kind \in ClfKinds =>
        /\ err \notin {"TypeError", "AttributeError"}
        /\ pc # "new" => CallOutcome(kind) = "ok"

\* C10 (as claimed): every callback passed as train_callbacks or
\* test_callbacks to a classification recipe is handed on and registered on
\* the corresponding loop.
C10_UserCallbacksRegistered ==
    (kind \in ClfKinds /\ pc # "new") =>
        /\ \A i \in 1 .. Len(train_callbacks) :
             /\ InSeq(train_callbacks[i], superCall.train_callbacks)
             /\ InSeq(train_callbacks[i], train_epilogues)
        /\ \A i \in 1 .. Len(test_callbacks) :
             /\ InSeq(test_callbacks[i], superCall.test_callbacks)
             /\ InSeq(test_callbacks[i], test_epilogues)

\* an accumulator is registered on the test loop
HasTestAcc ==
    \E i \in 1 .. Len(test_epilogues) : test_epilogues[i].cb = "AccAvg"

\* C11: an accumulator with post_each_batch false, on the test loop, posts
\* exactly once per test pass, after the pass's last batch and not before; the
\* value posted is the arithmetic mean of the scalars of that pass's batches
\* alone, and the accumulator is empty again when the pass has ended.
C11_AccAvgOncePerPass ==
    HasTestAcc =>
        /\ accEmits \in {testPasses, testPasses + 1}
        /\ accEmits = testPasses + 1 =>
              testActive /\ pc = "test_epilogue" /\ tb = test_loader
        /\ (accEmits = testPasses + 1 \/ (~testActive /\ testPasses >= 1)) =>
              /\ accOut.cnt = test_loader
              /\ passCnt = test_loader
              /\ accOut.sum * passCnt = passSum * accOut.cnt
        /\ ~testActive => accSum = 0 /\ accCnt = 0

\* two passes of four batches were averaged, the last one to 4/4 with batch
\* scalars in units of one half: a mean of 0.5
C11_Witness ==
    /\ HasTestAcc
    /\ test_loader = 4
    /\ testPasses = 2
    /\ ~testActive
    /\ accEmits = 2
    /\ accOut = [sum |-> 4, cnt |-> 4]

\* what happens at the level of the test loop
IsTestEvent(e) ==
    e \in {"test_step", "test_VisdomLogger", "TestStdoutLogger", "Checkpoint",
           "u2", "AccAvg"}
IsTrainEvent(e) == ~IsTestEvent(e)
IsPrefix(s, t) ==
    /\ Len(s) <= Len(t)
    /\ \A i \in 1 .. Len(s) : s[i] = t[i]
\* the order of a training iteration and of a test batch, user callbacks last
TrainOrder ==
    <<"Counter", "train_step", "CallDataLoop", "VisdomLogger", "StdoutLogger",
      "u1">>
TestOrder ==
    <<"test_step", "test_VisdomLogger", "TestStdoutLogger", "Checkpoint">>
        \o (IF InSeq(User("u2"), test_epilogues) THEN <<"u2">> ELSE <<>>)

\* C12: within one training iteration the order is Counter, train step,
\* CallDataLoop, VisdomLogger, StdoutLogger; within each test batch it is test
\* step, VisdomLogger('test_'), StdoutLogger('Test'), Checkpoint; so when a
\* test pass is due at iteration i, the whole pass, checkpoint write included,
\* has finished before the training metrics of iteration i are logged.
C12_CallbackOrder ==
    kind = "TrainAndTest" =>
        LET tr == SelectSeq(events, IsTrainEvent)
            te == SelectSeq(events, IsTestEvent)
        IN /\ IsPrefix(tr, TrainOrder)
           /\ \A j \in 1 .. Len(te) :
                 te[j] = TestOrder[((j - 1) % Len(TestOrder)) + 1]
           /\ \A i, j \in 1 .. Len(events) :
                 (IsTestEvent(events[i]) /\ events[j] = "VisdomLogger") =>
                     /\ i < j
                     /\ ~testActive
                     /\ Len(te) = test_loader * Len(TestOrder)
                     /\ ckptWrites = testPasses
                     /\ files[CkptPath(visdom_env)].iters = iters

\* an iteration with a nested pass of two batches, logged to its end
C12_Witness ==
    /\ test_loader = 2
    /\ iters = 2
    /\ events = <<"Counter", "train_step", "CallDataLoop",
                  "test_step", "test_VisdomLogger", "TestStdoutLogger",
                  "Checkpoint",
                  "test_step", "test_VisdomLogger", "TestStdoutLogger",
                  "Checkpoint",
                  "VisdomLogger", "StdoutLogger">>

\* the names of the first n callbacks of a list, in registration order
Tags(cbs, n) == [i \in 1 .. n |-> Tag(cbs[i])]
\* what was logged after the last occurrence of e
SinceLast(e) ==
    LET k == CHOOSE k \in 1 .. Len(events) :
                 /\ events[k] = e
                 /\ \A j \in (k + 1) .. Len(events) : events[j] # e
    IN SubSeq(events, k + 1, Len(events))

\* C13: one pass of a Data Loop invokes the per-batch function on every batch
\* of its sequence exactly once, in sequence order; for each batch the
\* prologues run before the function and the epilogues after it, each list in
\* the order of registration.
C13_PassVisitsEveryBatchOnce ==
    /\ passBatches = [i \in 1 .. Len(passBatches) |-> i]
    /\ Len(passBatches) <= test_loader
    /\ (testPasses >= 1 /\ ~testActive) => Len(passBatches) = test_loader
    /\ pc = "eval_call" => Len(passBatches) = tb - 1
    /\ pc = "test_epilogue" =>
          /\ Len(passBatches) = tb
          /\ SinceLast("test_step") = Tags(test_epilogues, si - 1)
    /\ pc = "train_prologue" /\ ti > 1 =>
          events = Tags(train_prologues, ti - 1)
    /\ pc = "train_step" =>
          events = Tags(train_prologues, Len(train_prologues))
    /\ (pc = "train_epilogue" /\ ~testActive) =>
          SelectSeq(SinceLast("train_step"), IsTrainEvent)
              = Tags(train_epilogues, ti - 1)

\* a test pass over two batches has ended, a user callback registered last
C13_Witness ==
    /\ test_loader = 2
    /\ testPasses >= 1
    /\ ~testActive
    /\ passBatches = <<1, 2>>
    /\ InSeq(User("u2"), test_epilogues)
    /\ userCalls["u2"] = 2

StepErrors == {"TrainStepError", "TestStepError"}

\* C14: when the train step or the test step raises, the error reaches the
\* caller of fit: the run has stopped with that error, the last thing that
\* happened is the failing step (no epilogue ran for its batch), and nothing
\* happens afterwards (no retry, no later batch).
C14_StepErrorPropagates ==
    /\ [](err \in StepErrors =>
            /\ pc = "raised"
            /\ events[Len(events)] =
                  (IF err = "TrainStepError" THEN "train_step" ELSE "test_step")
            /\ err = "TrainStepError" => stepIters[Len(stepIters)] = iters
            /\ err = "TestStepError" => passBatches[Len(passBatches)] = tb)
    /\ [][err \notin StepErrors]_vars

\* the test step failed on the first of two batches, iterations still to run
C14_Witness ==
    /\ err = "TestStepError"
    /\ pc = "raised"
    /\ test_loader = 2
    /\ passBatches = <<1>>
    /\ iters < fitArg

RunStarted == pc \notin {"new", "ready"}

InRun ==
    \/ pc \in {"train_prologue", "train_step", "train_epilogue", "eval_call",
               "test_fun", "test_epilogue", "done"}
    \/ pc = "raised" /\ err \in StepErrors \cup {"EmptyLoader"}

\* C16: in one run make_optimizer is called exactly once, before the first
\* train step, and every train_step of the run receives that one optimizer,
\* after the training sequence has wrapped around and after a nested test
\* pass as well.
C16_OneOptimizerPerRun ==
    /\ ~InRun => optMade = 0 /\ stepOpts = <<>>
    /\ InRun =>
          /\ optMade = 1
          /\ optId = 1
          /\ \A i \in 1 .. Len(stepOpts) : stepOpts[i] = optId
          /\ Len(stepOpts) = Len(stepIters)

\* steps were taken in a second epoch and after a test pass
C16_Witness ==
    /\ epoch >= 1
    /\ testPasses >= 1
    /\ ~testActive
    /\ Len(stepOpts) >= 3
    /\ stepIters[Len(stepIters)] > last
    /\ stepOpts[Len(stepOpts)] = 1

\* C17: fit(n) with n > 0 over an empty training sequence fails on the first
\* fetch of a batch: the run has stopped with that error before any callback
\* or step, it has not returned as if it had trained, and nothing follows.
C17_EmptyTrainLoaderFails ==
    /\ []((train_loader = 0 /\ fitArg > 0 /\ optMade >= 1) =>
            /\ pc = "raised"
            /\ err = "EmptyLoader"
            /\ stepIters = <<>>
            /\ events = <<>>
            /\ iters = 0)
    /\ [][err # "EmptyLoader"]_vars

\* fit(3) was called on a recipe whose training sequence is empty
C17_Witness ==
    /\ train_loader = 0
    /\ fitArg = 3
    /\ optMade = 1
    /\ pc = "raised"
    /\ err = "EmptyLoader"

\* C18: a TrainAndTest constructed without optional arguments runs with the
\* documented defaults: a test pass every 1000 iterations, Visdom not used
\* (visdom_env None) and the checkpoint under 'model/ckpt'.
C18_DocumentedDefaults ==
    (defaults /\ pc = "ready") =>
        /\ train_epilogues[1].every = TestEveryDocumented
        /\ train_epilogues[2].visdom_env = VisdomEnvDocumented
        /\ test_epilogues[1].visdom_env = VisdomEnvDocumented
        /\ test_epilogues[3].filename = "model/ckpt"

\* the persistent state of the training loop
TrainState == [params |-> params, opt |-> optState, iters |-> iters]

\* C19: a nested test pass leaves the training state unchanged: from the step
\* that starts the pass to the step that ends it no train step runs and the
\* parameters, the optimizer state and the iteration counter keep their
\* values; the checkpoint written by the pass is the state training goes on
\* from, and the next train step starts from its parameters and optimizer
\* state.
C19_TestPassLeavesTrainingState ==
    /\ [][(testActive \/ testActive') =>
            UNCHANGED <<params, optState, iters, stepIters, optId>>]_vars
    /\ []((testPasses >= 1 /\ ~testActive /\ last = iters) =>
            files[CkptPath(visdom_env)] = TrainState)
    /\ []((testPasses >= 1 /\ pc = "train_step" /\ last = iters - 1) =>
            /\ files[CkptPath(visdom_env)].params = params
            /\ files[CkptPath(visdom_env)].opt = optState)

\* the train step after a pass of two batches is about to run
C19_Witness ==
    /\ testPasses >= 1
    /\ test_loader = 2
    /\ pc = "train_step"
    /\ last = iters - 1
    /\ params >= 2
    /\ files[CkptPath(visdom_env)].params = params

====
